---------------------------- MODULE Spec2Model ----------------------------
(***************************************************************************)
(* A model of the DX feed client (src/src/DX/DX.py): one client object,    *)
(* its constructor, get_current_time, post, get and display_data, the HTTP *)
(* transport it calls and the console it prints to.                        *)
(*                                                                         *)
(* A call is a thread of control that walks through the statements of the  *)
(* method; the label of a step is the source line it executes (p95 is line *)
(* 95 of post, g133 is line 133 of get).  Spec lets one caller make calls  *)
(* one after another; SpecConc lets two callers run their calls on the     *)
(* same client with their statements interleaved.                          *)
(***************************************************************************)
EXTENDS Integers, Sequences, FiniteSets, TLC

VARIABLES
    ctor,      \* the arguments the client was constructed with
    self,      \* the attributes of the client object
    pc,        \* pc[t]: the statement thread t executes next
    args,      \* args[t]: the method and arguments of t's current call
    resp,      \* resp[t]: the response object or pending exception local to t
    clock,     \* clock[t]: the wall-clock instant t's call read
    sent,      \* sent[t]: the HTTP requests t's current call handed to the transport
    ret,       \* ret[t]: the value t's call returned
    out,       \* out[t]: the lines t's call printed
    prev,      \* the arguments of the call made before the current one
    ncalls,    \* number of post/get calls started
    nreq,      \* number of HTTP requests handed to the transport
    nfail      \* number of calls whose request failed

vars == <<ctor, self, pc, args, resp, clock, sent, ret, out, prev, ncalls, nreq, nfail>>

(***************************************************************************)
(* Bounds                                                                  *)
(***************************************************************************)
MaxCalls == 3        \* calls made by the single caller of Spec
MaxConcCalls == 2    \* calls made by the two callers of SpecConc together

Threads == {1, 2}
SeqThreads == {1}

StreamIds == {"100", "200"}
DataValues == {"AQI: 2", "AQI: 5"}

(***************************************************************************)
(* Optional values: <<>> is Python's None (or an attribute not yet set),   *)
(* <<v>> is the value v.                                                   *)
(***************************************************************************)
NoValue == <<>>     \* an attribute not set yet, a call that has not returned
PyNone == <<>>      \* the argument value None
Some(v) == <<v>>
Val(o) == o[1]

\* Python truthiness of an optional number: None and 0 are falsy.
Truthy(o) == o # PyNone /\ Val(o) # 0

(***************************************************************************)
(* JSON values as the decoder returns them: null, or a dict or list with   *)
(* its items in order (a dict item is <<key, number>>).                    *)
(***************************************************************************)
JNull == [t |-> "null", items |-> <<>>]
JDict(items) == [t |-> "dict", items |-> items]

\* Python truthiness of a decoded JSON value: None and empty containers are falsy.
JTruthy(v) == v.t # "null" /\ Len(v.items) > 0

\* response.json(): the decoded body of a response.
JsonLoads(text) ==
    CASE text = "null" -> JNull
      [] text = "{}" -> JDict(<<>>)
      [] text = "{\"a\": 1}" -> JDict(<<<<"a", 1>>>>)

RECURSIVE DumpItems(_, _)
DumpItems(items, i) ==
    IF i > Len(items) THEN ""
    ELSE "    \"" \o items[i][1] \o "\": " \o ToString(items[i][2])
         \o (IF i < Len(items) THEN ",\n" ELSE "\n")
         \o DumpItems(items, i + 1)

\* json.dumps(data, indent=4)
JsonDumpsIndent4(v) ==
    IF v.t = "null" THEN "null"
    ELSE IF Len(v.items) = 0 THEN "{}"
    ELSE "{\n" \o DumpItems(v.items, 1) \o "}"

(***************************************************************************)
(* Calendar arithmetic of datetime + timedelta.  A datetime is a record    *)
(* of its fields; a timedelta is normalised days, seconds, microseconds.   *)
(***************************************************************************)
IsLeap(year) == year % 4 = 0 /\ (year % 100 # 0 \/ year % 400 = 0)

DaysInMonthTable == <<31, 28, 31, 30, 31, 30, 31, 31, 30, 31, 30, 31>>
DaysBeforeMonthTable == <<0, 31, 59, 90, 120, 151, 181, 212, 243, 273, 304, 334>>

DaysBeforeYear(year) ==
    LET y == year - 1 IN y * 365 + (y \div 4) - (y \div 100) + (y \div 400)

DaysBeforeMonth(year, month) ==
    DaysBeforeMonthTable[month] + (IF month > 2 /\ IsLeap(year) THEN 1 ELSE 0)

Ymd2Ord(year, month, day) ==
    DaysBeforeYear(year) + DaysBeforeMonth(year, month) + day

Ord2Ymd(ord) ==
    LET n0   == ord - 1
        n400 == n0 \div 146097
        r400 == n0 % 146097
        n100 == r400 \div 36524
        r100 == r400 % 36524
        n4   == r100 \div 1461
        r4   == r100 % 1461
        n1   == r4 \div 365
        n    == r4 % 365
        year == n400 * 400 + 1 + n100 * 100 + n4 * 4 + n1
        leap == n1 = 3 /\ (n4 # 24 \/ n100 = 3)
        m0   == (n + 50) \div 32
        p0   == DaysBeforeMonthTable[m0] + (IF m0 > 2 /\ leap THEN 1 ELSE 0)
        month == IF p0 > n THEN m0 - 1 ELSE m0
        prec == IF p0 > n
                THEN p0 - (DaysInMonthTable[month]
                           + (IF month = 2 /\ leap THEN 1 ELSE 0))
                ELSE p0
    IN  IF n1 = 4 \/ n100 = 4
        THEN [year |-> year - 1, month |-> 12, day |-> 31]
        ELSE [year |-> year, month |-> month, day |-> n - prec + 1]

\* timedelta(minutes=m) for a whole number of minutes m
TimedeltaMinutes(m) ==
    [days |-> (m * 60) \div 86400, seconds |-> (m * 60) % 86400, microseconds |-> 0]

\* datetime + timedelta
DatetimeAdd(dt, td) ==
    LET us   == dt.microsecond + td.microseconds
        secs == dt.hour * 3600 + dt.minute * 60 + dt.second + td.seconds
                + (us \div 1000000)
        days == Ymd2Ord(dt.year, dt.month, dt.day) + td.days + (secs \div 86400)
        s    == secs % 86400
        ymd  == Ord2Ymd(days)
    IN  [year |-> ymd.year, month |-> ymd.month, day |-> ymd.day,
         hour |-> s \div 3600, minute |-> (s % 3600) \div 60, second |-> s % 60,
         microsecond |-> us % 1000000]

(***************************************************************************)
(* strftime and the slice of its result.  Text that is sliced is a         *)
(* sequence of one-character strings.                                      *)
(***************************************************************************)
DigitChar == <<"0", "1", "2", "3", "4", "5", "6", "7", "8", "9">>

RECURSIVE ZeroPad(_, _)
\* n written in decimal, zero-padded to width w, as characters
ZeroPad(n, w) ==
    IF w = 0 THEN <<>> ELSE Append(ZeroPad(n \div 10, w - 1), DigitChar[(n % 10) + 1])

\* dt.strftime("%Y-%m-%dT%H:%M:%S.%f")
Strftime(dt) ==
    ZeroPad(dt.year, 4) \o <<"-">> \o ZeroPad(dt.month, 2) \o <<"-">>
    \o ZeroPad(dt.day, 2) \o <<"T">> \o ZeroPad(dt.hour, 2) \o <<":">>
    \o ZeroPad(dt.minute, 2) \o <<":">> \o ZeroPad(dt.second, 2) \o <<".">>
    \o ZeroPad(dt.microsecond, 6)

RECURSIVE Join(_)
\* the string made of a sequence of characters
Join(cs) == IF cs = <<>> THEN "" ELSE Head(cs) \o Join(Tail(cs))

\* Variant: s[:-2]
DropLast3_DropsTwo(cs) == SubSeq(cs, 1, Len(cs) - 2)

\* s[:-3]
DropLast3(cs) == SubSeq(cs, 1, Len(cs) - 3)

\* DX.get_current_time, with `now` the value of datetime.now(timezone.utc)
GetCurrentTime(now, delta) ==
    Join(DropLast3(Strftime(DatetimeAdd(now, delta)))) \o "Z"

(***************************************************************************)
(* Construction                                                            *)
(***************************************************************************)
\* The ways the client is constructed in the model.  has_version / has_delta
\* say whether the optional argument is passed at all.
Ctor(k, hv, v, hd, d) ==
    [api_key |-> k, feed_id |-> "feed-7", has_version |-> hv, version |-> v,
     has_delta |-> hd, delta |-> d]

CtorArgs ==
    { Ctor("", FALSE, PyNone, FALSE, PyNone),        \* DX("", f)
      Ctor("", TRUE, Some(0), TRUE, Some(-1)),       \* DX("", f, 0, -1)
      Ctor("key-1", FALSE, PyNone, FALSE, PyNone),   \* DX(k, f)
      Ctor("key-1", TRUE, PyNone, TRUE, PyNone),     \* DX(k, f, None, None)
      Ctor("key-1", TRUE, Some(0), TRUE, Some(-1)),  \* DX(k, f, 0, -1)
      Ctor("key-1", TRUE, Some(2), TRUE, Some(1500)) \* DX(k, f, 2, 1500)
    }

\* The constructions the two-caller specification starts from.
CtorArgsConc ==
    { Ctor("", FALSE, PyNone, FALSE, PyNone),
      Ctor("key-1", TRUE, Some(2), TRUE, Some(1500)) }

\* Variant: `version if version is not None else 1`.
VersionOrDefault_NotNone(version) == IF version # PyNone THEN Val(version) ELSE 1

\* version if version else 1
VersionOrDefault(version) == IF Truthy(version) THEN Val(version) ELSE 1

\* timedelta(minutes=delta) if delta is not None else timedelta(minutes=0)
DeltaOrDefault(delta) ==
    IF delta # PyNone THEN TimedeltaMinutes(Val(delta)) ELSE TimedeltaMinutes(0)

\* DX.__init__(api_key, feed_id, version, delta)
DXInit(api_key, feed_id, version, delta) ==
    [api_key |-> api_key,
     feed_id |-> feed_id,
     version |-> VersionOrDefault(version),
     url |-> "https://api.mkdx.btcsp.co.uk/data-service/sensors/feeds/",
     header |-> [accept |-> "application/json",
                 x_api_key |-> api_key,
                 content_type |-> "application/json"],
     delta |-> DeltaOrDefault(delta),
     \* attributes that exist only once post or get has assigned them
     post_stream_id |-> NoValue, data |-> NoValue, ingest_url |-> NoValue,
     time_now |-> NoValue, json |-> NoValue,
     get_stream_id |-> NoValue, agregate |-> NoValue, get_url |-> NoValue]

\* DX(...) with the signature's defaults (version=1, delta=None) filled in
New(c) ==
    DXInit(c.api_key, c.feed_id,
           IF c.has_version THEN c.version ELSE Some(1),
           IF c.has_delta THEN c.delta ELSE PyNone)

(***************************************************************************)
(* The transport (requests.post / requests.get) and the wall clock         *)
(***************************************************************************)
NetErrors == {"ConnectionError", "Timeout"}
ErrorStatuses == {404, 500}
Bodies == {"null", "{}", "{\"a\": 1}"}

\* What one request can come back with: a network-level exception, or a
\* response with a status code and a body.
Outcomes ==
    { [neterr |-> e, status |-> 0, body |-> ""] : e \in NetErrors }
    \cup { [neterr |-> "", status |-> 200, body |-> b] : b \in Bodies }
    \cup { [neterr |-> "", status |-> st, body |-> ""] : st \in ErrorStatuses }

\* The instants datetime.now(timezone.utc) returns in the model.
NowSet ==
    { [year |-> 2024, month |-> 2, day |-> 28, hour |-> 23, minute |-> 59,
       second |-> 59, microsecond |-> 999999],
      [year |-> 2026, month |-> 1, day |-> 1, hour |-> 0, minute |-> 0,
       second |-> 30, microsecond |-> 999] }

\* Variant: `except requests.exceptions.HTTPError`.
RequestException_HTTPErrorOnly == {"HTTPError"}

\* The exception classes the except clauses of post and get catch:
\* requests.exceptions.RequestException and its subclasses.
RequestException == {"ConnectionError", "Timeout", "HTTPError"}

\* response.raise_for_status() raises HTTPError for a 4xx or 5xx status.
IsErrorStatus(status) == 400 <= status /\ status < 600

\* Variant: `if self.api_key is None`, which an empty string never satisfies.
ApiKeyMissing_IsNone(s) == FALSE

\* if not self.api_key
ApiKeyMissing(s) == s.api_key = ""

\* the f-string of line 101
IngestUrl(s) ==
    "https://ing.mkdx.btcsp.co.uk/datahub-adapter/sensors/feeds/"
    \o s.feed_id \o "/" \o ToString(s.version)

\* Variant: "value" filled with the stream id.
Payload_ValueIsStreamId(s) ==
    [data |-> << [streamId |-> Val(s.post_stream_id),
                  value |-> Val(s.post_stream_id),
                  eventTime |-> Val(s.time_now)] >>]

\* the JSON payload of lines 104-112, built from the attributes of the client
Payload(s) ==
    [data |-> << [streamId |-> Val(s.post_stream_id),
                  value |-> Val(s.data),
                  eventTime |-> Val(s.time_now)] >>]

\* agregate if agregate is not None else False
AgregateOrDefault(agregate) == IF agregate # PyNone THEN Val(agregate) ELSE FALSE

\* Variant: the latest-value URL whatever the flag.
GetUrl_IgnoresFlag(s) ==
    "https://api.mkdx.btcsp.co.uk/data-service/sensors/feeds/"
    \o s.feed_id \o "/" \o ToString(s.version) \o "/datastream/"
    \o Val(s.get_stream_id)

\* the f-strings of lines 134-137, chosen by self.agregate
GetUrl(s) ==
    IF Val(s.agregate)
    THEN "https://api.mkdx.btcsp.co.uk/data-service/sensors/feeds/"
         \o s.feed_id \o "/" \o ToString(s.version) \o "/datastream/"
         \o Val(s.get_stream_id) \o "/datapoints?limit=100"
    ELSE "https://api.mkdx.btcsp.co.uk/data-service/sensors/feeds/"
         \o s.feed_id \o "/" \o ToString(s.version) \o "/datastream/"
         \o Val(s.get_stream_id)

\* Variant: display_data without the emptiness test.
DisplayData_AlwaysDumps(data) == JsonDumpsIndent4(data)

\* DX.display_data(data): the line it prints
DisplayData(data) ==
    IF JTruthy(data) THEN JsonDumpsIndent4(data) ELSE "No data to display."

\* str(e) of the exception a failed request raised
ExcText(r) ==
    IF r.exc = "HTTPError" THEN ToString(r.status) \o " Error" ELSE r.exc

\* Variant: the request is sent a second time.
Transmit_Twice(log, req) == Append(Append(log, req), req)

\* the transport is handed one more request
Transmit(log, req) == Append(log, req)

(***************************************************************************)
(* State                                                                   *)
(***************************************************************************)
NoArgs ==
    [method |-> "", stream_id |-> "", data |-> "", display |-> FALSE,
     agregate |-> PyNone]
NoResp == [neterr |-> "", status |-> 0, body |-> "", exc |-> ""]

PostArgs ==
    { [method |-> "post", stream_id |-> sid, data |-> d, display |-> FALSE,
       agregate |-> PyNone] : sid \in StreamIds, d \in DataValues }
GetArgs ==
    { [method |-> "get", stream_id |-> sid, data |-> "", display |-> dsp,
       agregate |-> ag] :
        sid \in StreamIds, dsp \in BOOLEAN, ag \in {PyNone, Some(FALSE), Some(TRUE)} }

Init ==
    /\ ctor \in CtorArgs
    /\ self = New(ctor)
    /\ pc = [t \in Threads |-> "idle"]
    /\ args = [t \in Threads |-> NoArgs]
    /\ resp = [t \in Threads |-> NoResp]
    /\ clock = [t \in Threads |-> NoValue]
    /\ sent = [t \in Threads |-> <<>>]
    /\ ret = [t \in Threads |-> NoValue]
    /\ out = [t \in Threads |-> <<>>]
    /\ prev = [t \in Threads |-> NoArgs]
    /\ ncalls = 0
    /\ nreq = 0
    /\ nfail = 0

\* The caller is free to make a call: it has none in progress.
Free(t) == pc[t] \in {"idle", "done", "raised"}

\* Thread t's locals at the entry of a call with arguments a.
Enter(t, a, label, limit) ==
    /\ Free(t)
    /\ ncalls < limit
    /\ ncalls' = ncalls + 1
    /\ prev' = [prev EXCEPT ![t] = args[t]]
    /\ args' = [args EXCEPT ![t] = a]
    /\ pc' = [pc EXCEPT ![t] = label]
    /\ resp' = [resp EXCEPT ![t] = NoResp]
    /\ clock' = [clock EXCEPT ![t] = NoValue]
    /\ sent' = [sent EXCEPT ![t] = <<>>]
    /\ ret' = [ret EXCEPT ![t] = NoValue]
    /\ out' = [out EXCEPT ![t] = <<>>]
    /\ UNCHANGED <<ctor, self, nreq, nfail>>

\* A statement that only assigns attributes of the client and goes on.
Assign(t, from, to, s) ==
    /\ pc[t] = from
    /\ self' = s
    /\ pc' = [pc EXCEPT ![t] = to]
    /\ UNCHANGED <<ctor, args, resp, clock, sent, ret, out, prev, ncalls, nreq, nfail>>

\* return None after printing line
ReturnNoneWith(t, line) ==
    /\ out' = [out EXCEPT ![t] = Append(@, line)]
    /\ ret' = [ret EXCEPT ![t] = Some(JNull)]
    /\ pc' = [pc EXCEPT ![t] = "done"]

\* requests.post / requests.get: the request goes out once, and the call
\* blocks until it raises or returns a response.
Request(t, from, okLabel, excLabel, req) ==
    /\ pc[t] = from
    /\ sent' = [sent EXCEPT ![t] = Transmit(@, req)]
    /\ nreq' = nreq + (Len(sent'[t]) - Len(sent[t]))
    /\ \E o \in Outcomes :
          /\ resp' = [resp EXCEPT ![t] =
                        [neterr |-> o.neterr, status |-> o.status,
                         body |-> o.body, exc |-> o.neterr]]
          /\ pc' = [pc EXCEPT ![t] = IF o.neterr # "" THEN excLabel ELSE okLabel]
    /\ UNCHANGED <<ctor, self, args, clock, ret, out, prev, ncalls, nfail>>

\* response.raise_for_status()
RaiseForStatus(t, from, okLabel, excLabel) ==
    /\ pc[t] = from
    /\ IF IsErrorStatus(resp[t].status)
       THEN /\ resp' = [resp EXCEPT ![t].exc = "HTTPError"]
            /\ pc' = [pc EXCEPT ![t] = excLabel]
       ELSE /\ resp' = resp
            /\ pc' = [pc EXCEPT ![t] = okLabel]
    /\ UNCHANGED <<ctor, self, args, clock, sent, ret, out, prev, ncalls, nreq, nfail>>

\* except requests.exceptions.RequestException as e: print(...); return None
\* An exception of another class leaves the call through the caller.
Except(t, from) ==
    /\ pc[t] = from
    /\ nfail' = nfail + 1
    /\ IF resp[t].exc \in RequestException
       THEN ReturnNoneWith(t, "An error occurred: " \o ExcText(resp[t]))
       ELSE /\ pc' = [pc EXCEPT ![t] = "raised"]
            /\ UNCHANGED <<ret, out>>
    /\ UNCHANGED <<ctor, self, args, resp, clock, sent, prev, ncalls, nreq>>

(***************************************************************************)
(* post(stream_id, data)                                                   *)
(***************************************************************************)
CallPost(t, limit) == \E a \in PostArgs : Enter(t, a, "p95", limit)

\* self.post_stream_id = stream_id
P95(t) == Assign(t, "p95", "p96", [self EXCEPT !.post_stream_id = Some(args[t].stream_id)])

\* self.data = data
P96(t) == Assign(t, "p96", "p97", [self EXCEPT !.data = Some(args[t].data)])

\* if not self.api_key: print("Please enter your API key."); return None
P97(t) ==
    /\ pc[t] = "p97"
    /\ IF ApiKeyMissing(self)
       THEN ReturnNoneWith(t, "Please enter your API key.")
       ELSE /\ pc' = [pc EXCEPT ![t] = "p101"]
            /\ UNCHANGED <<ret, out>>
    /\ UNCHANGED <<ctor, self, args, resp, clock, sent, prev, ncalls, nreq, nfail>>

\* self.ingest_url = f"..."
P101(t) == Assign(t, "p101", "p102", [self EXCEPT !.ingest_url = Some(IngestUrl(self))])

\* self.time_now = self.get_current_time()
P102(t) ==
    /\ pc[t] = "p102"
    /\ \E now \in NowSet :
          /\ clock' = [clock EXCEPT ![t] = Some(now)]
          /\ self' = [self EXCEPT !.time_now = Some(GetCurrentTime(now, self.delta))]
    /\ pc' = [pc EXCEPT ![t] = "p104"]
    /\ UNCHANGED <<ctor, args, resp, sent, ret, out, prev, ncalls, nreq, nfail>>

\* self.json = {"data": [{...}]}
P104(t) == Assign(t, "p104", "p115", [self EXCEPT !.json = Some(Payload(self))])

\* response = requests.post(self.ingest_url, headers=self.header, json=self.json)
P115(t) ==
    Request(t, "p115", "p116", "p118",
            [method |-> "POST", url |-> Val(self.ingest_url),
             headers |-> self.header, json |-> self.json])

\* response.raise_for_status()
P116(t) == RaiseForStatus(t, "p116", "p117", "p118")

\* return response.json()
P117(t) ==
    /\ pc[t] = "p117"
    /\ ret' = [ret EXCEPT ![t] = Some(JsonLoads(resp[t].body))]
    /\ pc' = [pc EXCEPT ![t] = "done"]
    /\ UNCHANGED <<ctor, self, args, resp, clock, sent, out, prev, ncalls, nreq, nfail>>

\* except requests.exceptions.RequestException as e
P118(t) == Except(t, "p118")

Post(t) ==
    \/ P95(t) \/ P96(t) \/ P97(t) \/ P101(t) \/ P102(t)
    \/ P104(t) \/ P115(t) \/ P116(t) \/ P117(t) \/ P118(t)

(***************************************************************************)
(* get(stream_id, display, agregate)                                       *)
(***************************************************************************)
CallGet(t, limit) == \E a \in GetArgs : Enter(t, a, "g129", limit)

\* self.get_stream_id = stream_id
G129(t) == Assign(t, "g129", "g130", [self EXCEPT !.get_stream_id = Some(args[t].stream_id)])

\* if not self.api_key: print("Please enter your API key."); return None
G130(t) ==
    /\ pc[t] = "g130"
    /\ IF ApiKeyMissing(self)
       THEN ReturnNoneWith(t, "Please enter your API key.")
       ELSE /\ pc' = [pc EXCEPT ![t] = "g133"]
            /\ UNCHANGED <<ret, out>>
    /\ UNCHANGED <<ctor, self, args, resp, clock, sent, prev, ncalls, nreq, nfail>>

\* self.agregate = agregate if agregate is not None else False
G133(t) ==
    Assign(t, "g133", "g134",
           [self EXCEPT !.agregate = Some(AgregateOrDefault(args[t].agregate))])

\* if self.agregate: self.get_url = f"..." else: self.get_url = f"..."
G134(t) == Assign(t, "g134", "g140", [self EXCEPT !.get_url = Some(GetUrl(self))])

\* response = requests.get(self.get_url, headers=self.header)
G140(t) ==
    Request(t, "g140", "g141", "g145",
            [method |-> "GET", url |-> Val(self.get_url),
             headers |-> self.header, json |-> NoValue])

\* response.raise_for_status()
G141(t) == RaiseForStatus(t, "g141", "g142", "g145")

\* if display: self.display_data(response.json())
G142(t) ==
    /\ pc[t] = "g142"
    /\ out' = [out EXCEPT ![t] =
                 IF args[t].display
                 THEN Append(@, DisplayData(JsonLoads(resp[t].body)))
                 ELSE @]
    /\ pc' = [pc EXCEPT ![t] = "g144"]
    /\ UNCHANGED <<ctor, self, args, resp, clock, sent, ret, prev, ncalls, nreq, nfail>>

\* return response.json()
G144(t) ==
    /\ pc[t] = "g144"
    /\ ret' = [ret EXCEPT ![t] = Some(JsonLoads(resp[t].body))]
    /\ pc' = [pc EXCEPT ![t] = "done"]
    /\ UNCHANGED <<ctor, self, args, resp, clock, sent, out, prev, ncalls, nreq, nfail>>

\* except requests.exceptions.RequestException as e
G145(t) == Except(t, "g145")

Get(t) ==
    \/ G129(t) \/ G130(t) \/ G133(t) \/ G134(t) \/ G140(t)
    \/ G141(t) \/ G142(t) \/ G144(t) \/ G145(t)

(***************************************************************************)
(* Specifications                                                          *)
(***************************************************************************)
\* One caller: calls follow one another.
Next ==
    \E t \in SeqThreads :
        CallPost(t, MaxCalls) \/ CallGet(t, MaxCalls) \/ Post(t) \/ Get(t)
Spec == Init /\ [][Next]_vars

\* Two callers on the same client, statements interleaved.
InitConc == Init /\ ctor \in CtorArgsConc
NextConc ==
    \E t \in Threads :
        CallPost(t, MaxConcCalls) \/ CallGet(t, MaxConcCalls) \/ Post(t) \/ Get(t)
SpecConc == InitConc /\ [][NextConc]_vars

(***************************************************************************)
(* Properties                                                              *)
(***************************************************************************)
\* The version the client must hold for its construction.
ExpectedVersion ==
    IF ctor.has_version /\ ctor.version # PyNone /\ Val(ctor.version) # 0
    THEN Val(ctor.version) ELSE 1

\* The configured clock offset in minutes.
DeltaMinutes == IF ctor.has_delta /\ ctor.delta # PyNone THEN Val(ctor.delta) ELSE 0

\* The transport answered t's request with a network error or a 4xx/5xx status.
RequestFailed(t) ==
    /\ sent[t] # <<>>
    /\ \/ resp[t].neterr # ""
       \/ resp[t].status \in 400..599

\* t's call has not reached its request statement.
BeforeRequest(t) ==
    pc[t] \in {"p95", "p96", "p97", "p101", "p102", "p104", "p115",
               "g129", "g130", "g133", "g134", "g140"}

\* The URL a get call with t's arguments must target.
ExpectedGetUrl(t) ==
    "https://api.mkdx.btcsp.co.uk/data-service/sensors/feeds/" \o ctor.feed_id
    \o "/" \o ToString(ExpectedVersion) \o "/datastream/" \o args[t].stream_id
    \o (IF args[t].agregate = Some(TRUE) THEN "/datapoints?limit=100" ELSE "")

\* The URL a post call must target.
ExpectedPostUrl ==
    "https://ing.mkdx.btcsp.co.uk/datahub-adapter/sensors/feeds/" \o ctor.feed_id
    \o "/" \o ToString(ExpectedVersion)

\* C1: on a client constructed with an empty api_key every post and get
\* returns None, nothing propagates, and no HTTP request is ever issued.
C1_NoKeyNoRequest ==
    ctor.api_key = "" =>
        /\ nreq = 0
        /\ \A t \in Threads :
              /\ sent[t] = <<>>
              /\ pc[t] # "raised"
              /\ pc[t] = "done" => ret[t] = Some(JNull)

\* A get has returned on a key-less client after an earlier post.
C1_Witness ==
    /\ ctor.api_key = ""
    /\ pc[1] = "done" /\ args[1].method = "get" /\ prev[1].method = "post"
    /\ ncalls = MaxCalls

\* C2: with a non-empty api_key, a request that meets a network error or a
\* 4xx/5xx status never reaches the success path and never propagates: the
\* call, post or get alike, prints one diagnostic and returns None, and the
\* caller can go on to make further calls.
C2_FailureReturnsNone ==
    \A t \in Threads :
        (ctor.api_key # "" /\ RequestFailed(t)) =>
            /\ pc[t] \in {"p116", "p118", "g141", "g145", "done"}
            /\ pc[t] = "done" =>
                  /\ ret[t] = Some(JNull)
                  /\ out[t] = << "An error occurred: " \o
                                 (IF resp[t].neterr # "" THEN resp[t].neterr
                                  ELSE ToString(resp[t].status) \o " Error") >>
                  /\ Free(t)

\* A get timed out and returned, on a client whose previous call (a post)
\* had failed too.
C2_Witness ==
    /\ pc[1] = "done" /\ args[1].method = "get" /\ RequestFailed(1)
    /\ resp[1].neterr = "Timeout"
    /\ prev[1].method = "post" /\ nfail = 2

\* C3: the request of a get call targets the datapoints?limit=100 URL when
\* that call's aggregate flag is true and the plain datastream URL when it
\* is false or absent, whatever earlier get calls used.
C3_GetEndpoint ==
    \A t \in Threads :
        (args[t].method = "get" /\ sent[t] # <<>>) =>
            /\ sent[t][1].method = "GET"
            /\ sent[t][1].url = ExpectedGetUrl(t)

\* A get without the flag has sent its request after a get with the flag set.
C3_Witness ==
    /\ args[1].method = "get" /\ sent[1] # <<>> /\ args[1].agregate = PyNone
    /\ prev[1].method = "get" /\ prev[1].agregate = Some(TRUE)

\* C4: the request of a post call is a POST to the ingestion URL whose body
\* is {"data": [point]} with one point, carrying that call's stream_id, that
\* call's data and the timestamp computed in that call.
C4_PostRequest ==
    \A t \in Threads :
        (args[t].method = "post" /\ sent[t] # <<>>) =>
            /\ sent[t][1].method = "POST"
            /\ sent[t][1].url = ExpectedPostUrl
            /\ sent[t][1].json # NoValue
            /\ LET body == Val(sent[t][1].json) IN
                  /\ DOMAIN body = {"data"}
                  /\ Len(body.data) = 1
                  /\ body.data[1].streamId = args[t].stream_id
                  /\ body.data[1].value = args[t].data
                  /\ body.data[1].eventTime = GetCurrentTime(Val(clock[t]), self.delta)

\* A post has sent its request after a post with another stream and value.
C4_Witness ==
    /\ args[1].method = "post" /\ sent[1] # <<>>
    /\ prev[1].method = "post"
    /\ prev[1].stream_id # args[1].stream_id /\ prev[1].data # args[1].data

\* t's get call returned after a 200 response.
GetSucceeded(t) ==
    /\ args[t].method = "get" /\ pc[t] = "done"
    /\ sent[t] # <<>> /\ resp[t].neterr = "" /\ resp[t].status = 200

C6_OneRequestPerCall ==
    ctor.api_key # "" =>
        /\ \A t \in Threads :
              Len(sent[t]) = IF pc[t] = "idle" \/ BeforeRequest(t) THEN 0 ELSE 1
        /\ nreq = ncalls - Cardinality({t \in Threads : BeforeRequest(t)})

\* All the calls of the run are over, one failed, the last one a displayed get.
C6_Witness ==
    /\ ctor.api_key # "" /\ ncalls = MaxCalls /\ nreq = MaxCalls /\ nfail = 1
    /\ pc[1] = "done" /\ args[1].method = "get" /\ args[1].display

\* C7: when two calls run concurrently on the same client, the request of
\* each carries its own arguments: a post its own stream_id and data, a get
\* its own stream_id and aggregate choice.
C7_OwnArguments ==
    \A t \in Threads :
        sent[t] # <<>> =>
            IF args[t].method = "post"
            THEN LET point == Val(sent[t][1].json).data[1] IN
                    /\ point.streamId = args[t].stream_id
                    /\ point.value = args[t].data
            ELSE sent[t][1].url = ExpectedGetUrl(t)

\* C8: the client's version is 1 when constructed with version 0, None or
\* omitted and the supplied value otherwise, its delta is zero when delta is
\* omitted, and neither changes through post and get calls: every request
\* URL carries that version.
C8_ConfigDefaults ==
    /\ self.version = ExpectedVersion
    /\ ~ctor.has_delta => self.delta = [days |-> 0, seconds |-> 0, microseconds |-> 0]
    /\ self.api_key = ctor.api_key /\ self.feed_id = ctor.feed_id
    /\ self.header.x_api_key = ctor.api_key
    /\ \A t \in Threads :
          sent[t] # <<>> =>
              sent[t][1].url = IF args[t].method = "post" THEN ExpectedPostUrl
                               ELSE ExpectedGetUrl(t)

\* A client constructed with version=0 has sent the request of its last call.
C8_Witness ==
    /\ ctor.has_version /\ ctor.version = Some(0) /\ self.version = 1
    /\ ncalls = MaxCalls /\ pc[1] = "done" /\ sent[1] # <<>>

\* The calendar rules the expected timestamp is worked out with.
LeapYear(y) == (y % 4 = 0 /\ y % 100 # 0) \/ y % 400 = 0
MonthLength(y, m) ==
    IF m = 2 THEN (IF LeapYear(y) THEN 29 ELSE 28)
    ELSE IF m \in {4, 6, 9, 11} THEN 30 ELSE 31

NextDay(d) ==
    IF d.day < MonthLength(d.year, d.month) THEN [d EXCEPT !.day = @ + 1]
    ELSE IF d.month < 12 THEN [d EXCEPT !.month = @ + 1, !.day = 1]
    ELSE [d EXCEPT !.year = @ + 1, !.month = 1, !.day = 1]

PrevDay(d) ==
    IF d.day > 1 THEN [d EXCEPT !.day = @ - 1]
    ELSE IF d.month > 1
         THEN [d EXCEPT !.month = @ - 1, !.day = MonthLength(d.year, d.month - 1)]
    ELSE [d EXCEPT !.year = @ - 1, !.month = 12, !.day = 31]

RECURSIVE ShiftDays(_, _)
ShiftDays(d, n) ==
    IF n = 0 THEN d
    ELSE IF n > 0 THEN ShiftDays(NextDay(d), n - 1)
    ELSE ShiftDays(PrevDay(d), n + 1)

TwoDigits(n) == IF n < 10 THEN "0" \o ToString(n) ELSE ToString(n)
ThreeDigits(n) == IF n < 100 THEN "0" \o TwoDigits(n) ELSE ToString(n)
FourDigits(n) == IF n < 1000 THEN "0" \o ThreeDigits(n) ELSE ToString(n)

\* The instant `now` plus m minutes, written YYYY-MM-DDTHH:MM:SS.mmmZ with
\* the microseconds cut to milliseconds.
ExpectedTimestamp(now, m) ==
    LET minutes == now.hour * 60 + now.minute + m
        date == ShiftDays([year |-> now.year, month |-> now.month, day |-> now.day],
                          minutes \div 1440)
        inday == minutes % 1440
    IN  FourDigits(date.year) \o "-" \o TwoDigits(date.month) \o "-"
        \o TwoDigits(date.day) \o "T" \o TwoDigits(inday \div 60) \o ":"
        \o TwoDigits(inday % 60) \o ":" \o TwoDigits(now.second) \o "."
        \o ThreeDigits(now.microsecond \div 1000) \o "Z"

\* C9: for every configured delta d, the timestamp get_current_time returns
\* is the UTC instant it read plus d minutes, written YYYY-MM-DDTHH:MM:SS.mmmZ:
\* three fractional digits, the microseconds cut to milliseconds, and a Z.
C9_TimestampFormat ==
    \A t \in SeqThreads :
        clock[t] # NoValue =>
            self.time_now = Some(ExpectedTimestamp(Val(clock[t]), DeltaMinutes))

\* The clock read 2024-02-28T23:59:59.999999 on a client with delta=1500.
C9_Witness ==
    /\ DeltaMinutes = 1500
    /\ clock[1] # NoValue /\ Val(clock[1]).year = 2024
    /\ self.time_now = Some("2024-03-01T00:59:59.999Z")

\* C10: no post or get call changes the state the client object holds: it
\* is what construction left.
C10_ClientUnchanged == self = New(ctor)

=============================================================================
